---- MODULE Spec2Model ----
(***************************************************************************)
(* Model of the notebook "Part 5 - Inference and Validation (Exercises)".  *)
(*                                                                         *)
(* The notebook is a sequence of cells.  Three runs of it are modelled:    *)
(*   SpecCells : cells 5, 7, 9 and 11 (one test batch: class               *)
(*               probabilities, topk, the label comparison, the mean);     *)
(*   Spec      : one of the two training cells (cell 13, no dropout, or    *)
(*               cell 17, dropout), one statement per step, followed for   *)
(*               cell 17 by the inference cell 19.                         *)
(* The training cells rebind model, optimizer, epochs, steps and the loss  *)
(* lists before their loop, so each starts from the same state whatever    *)
(* ran before it.                                                          *)
(*                                                                         *)
(* Abstractions.  The weights of the network are not represented: the      *)
(* parameters are the number of updates applied and the examples they came *)
(* from, and a forward pass returns for each example any row of a small    *)
(* set of rows of class probabilities.  Probabilities are integers in      *)
(* units of 1/Denom.  Floating point values are exact rationals            *)
(* <<numerator, denominator>>; the value of the loss is not represented.   *)
(* A tensor carries `src`, the set of examples its value was computed      *)
(* from, and `requires_grad`, as autograd records it.  The temporaries of  *)
(* a loop body are forgotten at the head of the loop (see NoLoss).         *)
(***************************************************************************)
EXTENDS Integers, Sequences, FiniteSets

\* ----------------------------------------------------------------- sizes
\* fc4 = nn.Linear(64, 10): ten classes
NumClasses == 10
\* DataLoader(..., batch_size=64, ...), modelled with a small batch
batch_size == 2
\* epochs = 10 in both training cells, modelled with fewer epochs
epochs == 2
\* number of examples of trainset and of testset (60000 and 10000)
TrainSize == 3
TestSize == 3

Classes == 0 .. (NumClasses - 1)
\* probabilities are counted in units of 1/Denom
Denom == 2 * NumClasses

\* --------------------------------------------------------------- datasets
\* An example is <<"train", i>> or <<"test", i>>; the two datasets are
\* different files (train=True / train=False).
trainset == { <<"train", i>> : i \in 1 .. TrainSize }
testset == { <<"test", i>> : i \in 1 .. TestSize }

\* The label of an example: a fixed property of the dataset.
Target(x) ==
    LET cyc == <<9, 2, 1, 1, 6, 1, 4, 6, 5, 7>>
    IN  IF x[1] = "test" THEN cyc[((x[2] - 1) % 10) + 1]
        ELSE cyc[((x[2] + 3) % 10) + 1]

\* ------------------------------------------------------------ arithmetic
RECURSIVE GCD(_, _)
GCD(a, b) == IF b = 0 THEN a ELSE GCD(b, a % b)

\* the rational n/d in lowest terms, d > 0
Rat(n, d) == LET g == GCD(n, d) IN IF n = 0 THEN <<0, 1>> ELSE <<n \div g, d \div g>>
RatAdd(p, q) == Rat(p[1] * q[2] + q[1] * p[2], p[2] * q[2])
RatMul(p, q) == Rat(p[1] * q[1], p[2] * q[2])
RatEq(p, q) == p[1] * q[2] = q[1] * p[2]

RECURSIVE SumSeq(_)
SumSeq(s) == IF s = <<>> THEN 0 ELSE Head(s) + SumSeq(Tail(s))

RECURSIVE Prod(_)
Prod(s) == IF s = <<>> THEN 1 ELSE Head(s) * Prod(Tail(s))

RECURSIVE Concat(_)
Concat(ss) == IF ss = <<>> THEN <<>> ELSE Head(ss) \o Concat(Tail(ss))

Range(s) == { s[i] : i \in 1 .. Len(s) }
Perms(S) == { p \in [1 .. Cardinality(S) -> S] : Range(p) = S }
Min(a, b) == IF a < b THEN a ELSE b
Max(a, b) == IF a < b THEN b ELSE a

\* ---------------------------------------------------------------- tensors
\* A tensor: its shape, its elements in row-major order, the examples it
\* was computed from and whether autograd tracks it.
\* dtype: "logp" (floats, stored as the probability whose logarithm they
\* are), "prob" (floats in units of 1/Denom), "int64", "bool", "float".
Tensor(dtype, shape, data, src, rg) ==
    [dtype |-> dtype, shape |-> shape, data |-> data, src |-> src,
     requires_grad |-> rg]

NoTensor == Tensor("none", <<0>>, <<>>, {}, FALSE)

\* a Python float or a 0-dimensional float tensor: an exact rational
Scalar(val, src, rg) == [val |-> val, src |-> src, requires_grad |-> rg]
NoScalar == Scalar(<<0, 1>>, {}, FALSE)

\* element (i, j), 0-based, of a 2-D tensor
At2(t, i, j) == t.data[i * t.shape[2] + j + 1]
Numel(t) == Prod(t.shape)

\* rows of class probabilities a forward pass can return: one class clearly
\* ahead, or two classes tied for the highest probability
PeakRow(c) == [k \in 1 .. NumClasses |-> IF k - 1 = c THEN Denom - (NumClasses - 1) ELSE 1]
TieRow(c, d) ==
    [k \in 1 .. NumClasses |->
        IF k - 1 = c \/ k - 1 = d THEN (Denom - (NumClasses - 2)) \div 2 ELSE 1]
Rows == { PeakRow(c) : c \in Classes } \cup { TieRow(4, 8), TieRow(1, 2) }

\* torch.exp of log-probabilities: the probabilities
Exp(t) == Tensor("prob", t.shape, t.data, t.src, t.requires_grad)

\* the highest value among columns 0 .. j of row i
RECURSIVE RowMax(_, _, _)
RowMax(t, i, j) ==
    IF j = 0 THEN At2(t, i, 0) ELSE Max(RowMax(t, i, j - 1), At2(t, i, j))

\* the columns of row i that hold the row's highest value
ArgTop(t, i) ==
    { j \in 0 .. (t.shape[2] - 1) : At2(t, i, j) = RowMax(t, i, t.shape[2] - 1) }

\* faulty variant: topk returning 1-based indices
Topk1OneBased(t) ==
    LET N == t.shape[1]
        top == [i \in 1 .. N |-> ArgTop(t, i - 1)]
    IN  { [values |-> Tensor(t.dtype, <<N, 1>>, [i \in 1 .. N |-> At2(t, i - 1, f[i])],
                             t.src, t.requires_grad),
           indices |-> Tensor("int64", <<N, 1>>, [i \in 1 .. N |-> f[i] + 1], t.src,
                              FALSE)] :
          f \in { g \in [1 .. N -> UNION Range(top)] : \A i \in 1 .. N : g[i] \in top[i] } }

\* t.topk(1, dim=1) on an N x C tensor: the pairs (values, indices), both
\* N x 1, it can return; among equal highest values the index is any of them
Topk1(t) ==
    LET N == t.shape[1]
        top == [i \in 1 .. N |-> ArgTop(t, i - 1)]
    IN  { [values |-> Tensor(t.dtype, <<N, 1>>, [i \in 1 .. N |-> At2(t, i - 1, f[i])],
                             t.src, t.requires_grad),
           indices |-> Tensor("int64", <<N, 1>>, f, t.src, FALSE)] :
          f \in { g \in [1 .. N -> UNION Range(top)] : \A i \in 1 .. N : g[i] \in top[i] } }

\* faulty variant: the labels compared without being reshaped
ViewLeftOut(t, shape) == t

\* t.view(*shape): the same elements in the same order under another shape
View(t, shape) == Tensor(t.dtype, shape, t.data, t.src, t.requires_grad)

\* a shape of rank 1 or 2 aligned on the right to rank 2
Pad2(shape) == IF Len(shape) = 1 THEN <<1, shape[1]>> ELSE shape

\* a == b, elementwise with broadcasting (ranks 1 and 2)
TensorEq(a, b) ==
    LET sa == Pad2(a.shape)
        sb == Pad2(b.shape)
        R == Max(sa[1], sb[1])
        Cn == Max(sa[2], sb[2])
        ea(i, j) == a.data[(IF sa[1] = 1 THEN 0 ELSE i) * sa[2]
                           + (IF sa[2] = 1 THEN 0 ELSE j) + 1]
        eb(i, j) == b.data[(IF sb[1] = 1 THEN 0 ELSE i) * sb[2]
                           + (IF sb[2] = 1 THEN 0 ELSE j) + 1]
        shape == IF Len(a.shape) = 1 /\ Len(b.shape) = 1 THEN <<Cn>> ELSE <<R, Cn>>
    IN  Tensor("bool", shape,
               [k \in 1 .. (R * Cn) |-> ea((k - 1) \div Cn, (k - 1) % Cn)
                                         = eb((k - 1) \div Cn, (k - 1) % Cn)],
               a.src \cup b.src, FALSE)

\* t.type(torch.FloatTensor) of a boolean tensor: True is 1.0, False is 0.0
TypeFloat(t) ==
    Tensor("float", t.shape, [k \in 1 .. Len(t.data) |-> IF t.data[k] THEN 1 ELSE 0],
           t.src, t.requires_grad)

\* faulty variant: torch.sum in place of torch.mean
MeanAsSum(t) == Scalar(Rat(SumSeq(t.data), 1), t.src, t.requires_grad)

\* torch.mean(t): the sum of the elements over their number
Mean(t) == Scalar(Rat(SumSeq(t.data), Numel(t)), t.src, t.requires_grad)

\* the model's output for a batch: N rows of log-probabilities, tracked by
\* autograd iff gradients are enabled when the forward pass runs
Forward(imgs, rows, genabled) ==
    Tensor("logp", <<Len(imgs), NumClasses>>, Concat(rows), Range(imgs), genabled)

\* criterion(log_ps, labels): the value of the loss is not represented, only
\* the examples it was computed from and whether it can be back-propagated
NLLLoss(lp, lab) == [src |-> lp.src \cup lab.src, requires_grad |-> lp.requires_grad]

\* ------------------------------------------------------------ data loaders
\* the batch a loader yields next from the examples it has left, and the rest
BatchOf(it) == SubSeq(it, 1, Min(batch_size, Len(it)))
RestOf(it) == SubSeq(it, Min(batch_size, Len(it)) + 1, Len(it))
LabelsOf(b) == Tensor("int64", <<Len(b)>>, [i \in 1 .. Len(b) |-> Target(b[i])],
                      Range(b), FALSE)
\* the number of batches trainloader yields in an epoch
LenTrainLoader == (TrainSize + batch_size - 1) \div batch_size
\* len(testloader): the number of batches, the last one possibly short
LenTestLoader == (TestSize + batch_size - 1) \div batch_size

\* rows the network returns for example x in the training cells: the label
\* of x ranked first, or another class ranked first
NetRows(x) == [right \in BOOLEAN |-> IF right THEN PeakRow(Target(x))
                                       ELSE PeakRow((Target(x) + 5) % NumClasses)]
NetOutputs(imgs) ==
    { [i \in 1 .. Len(imgs) |-> NetRows(imgs[i])[b[i]]] : b \in [1 .. Len(imgs) -> BOOLEAN] }

\* The temporaries of a loop body (log_ps, loss; ps, top_p, top_class, equals)
\* are forgotten at the head of their loop: in Python the names keep their
\* value until they are rebound, but no statement reads it before that, so it
\* cannot influence what the cell does.  images and labels keep their value.
NoLoss == [src |-> {}, requires_grad |-> FALSE]

\* ------------------------------------------- the layers of the Classifier
\* Widths of the layers, scaled down: InputDim stands for the 784 pixels of an
\* image, Hidden for the 256, 128 and 64 units of the hidden layers; the
\* output layer keeps its NumClasses units.
InputDim == 2
Hidden == 2
Widths == <<InputDim, Hidden, Hidden, Hidden, NumClasses>>
HiddenLayers == 1 .. 3
\* pixel values after transforms.Normalize((0.5,), (0.5,)) lie in [-1, 1]
Pixels == {-1, 0, 1}
\* the weight assignments tried: one per seed
MaxSeed == 2

\* An activation vector is [num, den]: unit i holds num[i] / den.
Activation(num, den) == [num |-> num, den |-> den]
NoActivation == Activation(<<>>, 1)

\* nn.Linear(n, m) with the parameters of assignment `seed` for layer l: an
\* m x n weight matrix and m biases, small integers of both signs
Layer(seed, l) ==
    [weight |-> [i \in 1 .. Widths[l + 1] |->
                    [j \in 1 .. Widths[l] |-> ((seed + l * i + j) % 3) - 1]],
     bias |-> [i \in 1 .. Widths[l + 1] |-> (seed + l + i) % 2]]
Parameters(seed) == [l \in 1 .. 4 |-> Layer(seed, l)]

Dot(u, v) == SumSeq([k \in 1 .. Len(u) |-> u[k] * v[k]])

\* self.fcN(x): weight . x + bias
Linear(layer, a) ==
    Activation([i \in 1 .. Len(layer.weight) |->
                   Dot(layer.weight[i], a.num) + layer.bias[i] * a.den], a.den)

\* F.relu(x)
Relu(a) == Activation([i \in 1 .. Len(a.num) |-> Max(0, a.num[i])], a.den)

\* F.log_softmax(x, dim=1): x[i] - log(sum_j exp(x[j])).  Two vectors have the
\* same log_softmax iff they differ by a constant, so the result is
\* represented by the vector shifted to have maximum 0.
RECURSIVE SeqMax(_)
SeqMax(s) == IF Len(s) = 1 THEN s[1] ELSE Max(Head(s), SeqMax(Tail(s)))
LogSoftmax(a) ==
    Activation([i \in 1 .. Len(a.num) |-> a.num[i] - SeqMax(a.num)], a.den)

\* nn.Dropout(p=0.2): 1 / (1 - p) = 5 / 4 scales the units that are kept
KeepScale == <<5, 4>>

\* faulty variant: dropout that ignores the mode of the module
DropoutAlways(a, keep, training) ==
    Activation([i \in 1 .. Len(a.num) |-> IF keep[i] THEN KeepScale[1] * a.num[i] ELSE 0],
               KeepScale[2] * a.den)

\* self.dropout(x): in train mode the units outside `keep` are zeroed and the
\* others scaled by 1 / (1 - p); in evaluation mode x is returned as it is
Dropout(a, keep, training) ==
    IF training
    THEN Activation([i \in 1 .. Len(a.num) |->
                        IF keep[i] THEN KeepScale[1] * a.num[i] ELSE 0],
                    KeepScale[2] * a.den)
    ELSE a

\* the units of `before` that `after` has zeroed
Zeroed(before, after) ==
    { i \in 1 .. Len(before.num) : before.num[i] # 0 /\ after.num[i] = 0 }

\* ------------------------------------------------------------------ state
VARIABLES
    cell,          \* the notebook cell being run
    pc,            \* the statement to run next
    model,         \* [training: the module's mode, params: the weights]
    optimizer,     \* Adam's state
    grads,         \* the .grad of the parameters: one entry per backward pass
    grad_enabled,  \* torch.is_grad_enabled()
    no_grad_prev,  \* the mode a torch.no_grad() block restores on exit
    e, steps, running_loss, train_losses, test_losses,
    trainiter,     \* examples the iterator over trainloader has left
    testiter,      \* examples the iterator over testloader has left
    images, labels,
    log_ps, loss,
    ps, top_p, top_class, equals,
    accuracy,
    stdout,        \* the lines printed by the cell
    hist_pred,     \* history: <<example, top_class>> of the current validation pass
    img, output,   \* the inference cell's image and output
    fc,            \* the weights and biases of fc1 .. fc4
    x_cell3,       \* x inside forward of the Classifier of cell 3
    x_cell16,      \* x inside forward of the Classifier of cell 16
    dropped        \* history: <<layer, unit>> zeroed by self.dropout

vars == <<cell, pc, model, optimizer, grads, grad_enabled, no_grad_prev, e, steps,
          running_loss, train_losses, test_losses, trainiter, testiter, images,
          labels, log_ps, loss, ps, top_p, top_class, equals, accuracy, stdout,
          hist_pred, img, output, fc, x_cell3, x_cell16, dropped>>

netVars == <<model, optimizer, grads>>
modeVars == <<grad_enabled, no_grad_prev>>
loopVars == <<e, steps, running_loss, train_losses, test_losses>>
iterVars == <<trainiter, testiter>>
batchVars == <<images, labels>>
trainTmp == <<log_ps, loss>>
valTmp == <<ps, top_p, top_class, equals>>
accVars == <<accuracy, hist_pred>>
infVars == <<img, output>>
fwdVars == <<fc, x_cell3, x_cell16, dropped>>

\* model = Classifier(): a fresh module is in train mode, no update applied
Classifier == [training |-> TRUE, params |-> [version |-> 0, src |-> {}]]
\* optim.Adam(model.parameters(), lr=0.003): no step taken
Adam == [t |-> 0]

\* the state when a training cell reaches its `for e in range(epochs)`
Init ==
    /\ cell \in {13, 17}
    /\ pc = "for_e"
    /\ model = Classifier
    /\ optimizer = Adam
    /\ grads = <<>>
    /\ grad_enabled = TRUE
    /\ no_grad_prev = TRUE
    /\ e = -1
    /\ steps = 0
    /\ running_loss = 0
    /\ train_losses = <<>>
    /\ test_losses = <<>>
    /\ trainiter = <<>>
    /\ testiter = <<>>
    /\ images = <<>>
    /\ labels = NoTensor
    /\ log_ps = NoTensor
    /\ loss = NoLoss
    /\ ps = NoTensor
    /\ top_p = NoTensor
    /\ top_class = NoTensor
    /\ equals = NoTensor
    /\ accuracy = NoScalar
    /\ stdout = <<>>
    /\ hist_pred = {}
    /\ img = <<>>
    /\ output = NoTensor
    /\ fc = <<>>
    /\ x_cell3 = NoActivation
    /\ x_cell16 = NoActivation
    /\ dropped = {}

\* -------------------------------------------------- the training cells
\* for e in range(epochs): the next epoch, or the end of the cell, where the
\* notebook goes on to cell 19 after cell 17 (the history hist_pred of the
\* validation pass just printed is dropped)
ForEpoch ==
    /\ pc = "for_e"
    /\ IF e + 1 < epochs
       THEN /\ e' = e + 1
            /\ pc' = "running_loss"
            /\ cell' = cell
       ELSE /\ e' = e
            /\ pc' = IF cell = 17 THEN "inf_eval" ELSE "done"
            /\ cell' = IF cell = 17 THEN 19 ELSE cell
    /\ hist_pred' = {}
    /\ UNCHANGED fwdVars
    /\ UNCHANGED <<netVars, modeVars, steps, running_loss, train_losses, test_losses,
                   iterVars, batchVars, trainTmp, valTmp, accuracy, stdout, infVars>>

\* running_loss = 0
RunningLossZero ==
    /\ pc = "running_loss"
    /\ running_loss' = 0
    /\ pc' = "for_train_iter"
    /\ UNCHANGED fwdVars
    /\ UNCHANGED <<cell, netVars, modeVars, e, steps, train_losses, test_losses,
                   iterVars, batchVars, trainTmp, valTmp, accVars, stdout, infVars>>

\* for ... in trainloader: the iterator, over a fresh shuffle of trainset
TrainIter ==
    /\ pc = "for_train_iter"
    /\ trainiter' \in Perms(trainset)
    /\ pc' = "for_train"
    /\ UNCHANGED fwdVars
    /\ UNCHANGED <<cell, netVars, modeVars, loopVars, testiter, batchVars, trainTmp,
                   valTmp, accVars, stdout, infVars>>

\* for images, labels in trainloader: the next batch, or the else branch
\* (the temporaries log_ps and loss of the previous iteration are forgotten)
TrainNext ==
    /\ pc = "for_train"
    /\ IF trainiter = <<>>
       THEN /\ pc' = "accuracy_zero"
            /\ UNCHANGED <<trainiter, batchVars>>
       ELSE /\ images' = BatchOf(trainiter)
            /\ labels' = LabelsOf(BatchOf(trainiter))
            /\ trainiter' = RestOf(trainiter)
            /\ pc' = "zero_grad"
    /\ log_ps' = NoTensor
    /\ loss' = NoLoss
    /\ UNCHANGED fwdVars
    /\ UNCHANGED <<cell, netVars, modeVars, loopVars, testiter, valTmp, accVars,
                   stdout, infVars>>

\* faulty variant: the training loop without optimizer.zero_grad()
ZeroGradLeftOut ==
    /\ pc = "zero_grad"
    /\ grads' = grads
    /\ pc' = "forward"
    /\ UNCHANGED fwdVars
    /\ UNCHANGED <<cell, model, optimizer, modeVars, loopVars, iterVars, batchVars,
                   trainTmp, valTmp, accVars, stdout, infVars>>

\* optimizer.zero_grad()
ZeroGrad ==
    /\ pc = "zero_grad"
    /\ grads' = <<>>
    /\ pc' = "forward"
    /\ UNCHANGED fwdVars
    /\ UNCHANGED <<cell, model, optimizer, modeVars, loopVars, iterVars, batchVars,
                   trainTmp, valTmp, accVars, stdout, infVars>>

\* log_ps = model(images)
TrainForward ==
    /\ pc = "forward"
    /\ \E rows \in NetOutputs(images) :
          log_ps' = Forward(images, rows, grad_enabled)
    /\ pc' = "criterion"
    /\ UNCHANGED fwdVars
    /\ UNCHANGED <<cell, netVars, modeVars, loopVars, iterVars, batchVars, loss,
                   valTmp, accVars, stdout, infVars>>

\* loss = criterion(log_ps, labels)
Criterion ==
    /\ pc = "criterion"
    /\ loss' = NLLLoss(log_ps, labels)
    /\ pc' = "backward"
    /\ UNCHANGED fwdVars
    /\ UNCHANGED <<cell, netVars, modeVars, loopVars, iterVars, batchVars, log_ps,
                   valTmp, accVars, stdout, infVars>>

\* loss.backward(): adds the gradient of the loss to .grad; raises a
\* RuntimeError when the loss was computed with gradients disabled
Backward ==
    /\ pc = "backward"
    /\ IF loss.requires_grad
       THEN /\ grads' = Append(grads, loss.src)
            /\ pc' = "step"
       ELSE /\ grads' = grads
            /\ pc' = "RuntimeError"
    /\ UNCHANGED fwdVars
    /\ UNCHANGED <<cell, model, optimizer, modeVars, loopVars, iterVars, batchVars,
                   trainTmp, valTmp, accVars, stdout, infVars>>

\* optimizer.step(): the parameters move along the accumulated .grad
OptimizerStep ==
    /\ pc = "step"
    /\ model' = [model EXCEPT !.params =
                    [version |-> @.version + 1,
                     src |-> @.src \cup UNION Range(grads)]]
    /\ optimizer' = [optimizer EXCEPT !.t = @ + 1]
    /\ pc' = "running_loss_add"
    /\ UNCHANGED fwdVars
    /\ UNCHANGED <<cell, grads, modeVars, loopVars, iterVars, batchVars, trainTmp,
                   valTmp, accVars, stdout, infVars>>

\* faulty variant: the validation pass indented into the body of the
\* training loop, so that it starts after the first batch
RunningLossAddThenValidate ==
    /\ pc = "running_loss_add"
    /\ running_loss' = running_loss + 1
    /\ pc' = "accuracy_zero"
    /\ UNCHANGED fwdVars
    /\ UNCHANGED <<cell, netVars, modeVars, e, steps, train_losses, test_losses,
                   iterVars, batchVars, trainTmp, valTmp, accVars, stdout, infVars>>

\* running_loss += loss.item(): loss values are not represented, the sum is
\* kept as the number of its terms
RunningLossAdd ==
    /\ pc = "running_loss_add"
    /\ running_loss' = running_loss + 1
    /\ pc' = "for_train"
    /\ UNCHANGED fwdVars
    /\ UNCHANGED <<cell, netVars, modeVars, e, steps, train_losses, test_losses,
                   iterVars, batchVars, trainTmp, valTmp, accVars, stdout, infVars>>

\* accuracy = 0
AccuracyZero ==
    /\ pc = "accuracy_zero"
    /\ accuracy' = Scalar(<<0, 1>>, {}, FALSE)
    /\ hist_pred' = {}
    /\ pc' = "no_grad_enter"
    /\ UNCHANGED fwdVars
    /\ UNCHANGED <<cell, netVars, modeVars, loopVars, iterVars, batchVars, trainTmp,
                   valTmp, stdout, infVars>>

\* with torch.no_grad(): entering saves the mode and disables gradients
NoGradEnter ==
    /\ pc = "no_grad_enter"
    /\ no_grad_prev' = grad_enabled
    /\ grad_enabled' = FALSE
    /\ pc' = IF cell = 17 THEN "model_eval" ELSE "for_test_iter"
    /\ UNCHANGED fwdVars
    /\ UNCHANGED <<cell, netVars, loopVars, iterVars, batchVars, trainTmp, valTmp,
                   accVars, stdout, infVars>>

\* model.eval() (cell 17)
ModelEval ==
    /\ pc = "model_eval"
    /\ model' = [model EXCEPT !.training = FALSE]
    /\ pc' = "for_test_iter"
    /\ UNCHANGED fwdVars
    /\ UNCHANGED <<cell, optimizer, grads, modeVars, loopVars, iterVars, batchVars,
                   trainTmp, valTmp, accVars, stdout, infVars>>

\* faulty variant: the validation loop iterates over trainloader
TestIterOverTrainloader ==
    /\ pc = "for_test_iter"
    /\ testiter' \in Perms(trainset)
    /\ pc' = "for_test"
    /\ UNCHANGED fwdVars
    /\ UNCHANGED <<cell, netVars, modeVars, loopVars, trainiter, batchVars, trainTmp,
                   valTmp, accVars, stdout, infVars>>

\* for ... in testloader: the iterator, over a fresh shuffle of testset
TestIter ==
    /\ pc = "for_test_iter"
    /\ testiter' \in Perms(testset)
    /\ pc' = "for_test"
    /\ UNCHANGED fwdVars
    /\ UNCHANGED <<cell, netVars, modeVars, loopVars, trainiter, batchVars, trainTmp,
                   valTmp, accVars, stdout, infVars>>

\* for images,labels in testloader: the next batch, or the end of the loop
\* (the temporaries of the previous iteration are forgotten)
TestNext ==
    /\ pc = "for_test"
    /\ IF testiter = <<>>
       THEN /\ pc' = "no_grad_exit"
            /\ UNCHANGED <<testiter, batchVars>>
       ELSE /\ images' = BatchOf(testiter)
            /\ labels' = LabelsOf(BatchOf(testiter))
            /\ testiter' = RestOf(testiter)
            /\ pc' = "val_forward"
    /\ ps' = NoTensor
    /\ top_p' = NoTensor
    /\ top_class' = NoTensor
    /\ equals' = NoTensor
    /\ UNCHANGED fwdVars
    /\ UNCHANGED <<cell, netVars, modeVars, loopVars, trainiter, trainTmp, accVars,
                   stdout, infVars>>

\* ps = torch.exp(model(images))
ValForward ==
    /\ pc = "val_forward"
    /\ \E rows \in NetOutputs(images) :
          ps' = Exp(Forward(images, rows, grad_enabled))
    /\ pc' = "topk"
    /\ UNCHANGED fwdVars
    /\ UNCHANGED <<cell, netVars, modeVars, loopVars, iterVars, batchVars, trainTmp,
                   top_p, top_class, equals, accVars, stdout, infVars>>

\* top_p, top_class = ps.topk(1, dim=1)
Topk ==
    /\ pc = "topk"
    /\ \E r \in Topk1(ps) :
          /\ top_p' = r.values
          /\ top_class' = r.indices
    /\ pc' = "equals"
    /\ UNCHANGED fwdVars
    /\ UNCHANGED <<cell, netVars, modeVars, loopVars, iterVars, batchVars, trainTmp,
                   ps, equals, accVars, stdout, infVars>>

\* equals = top_class == labels.view(*top_class.shape)
Equals ==
    /\ pc = "equals"
    /\ equals' = TensorEq(top_class, View(labels, top_class.shape))
    /\ pc' = "accuracy_add"
    /\ UNCHANGED fwdVars
    /\ UNCHANGED <<cell, netVars, modeVars, loopVars, iterVars, batchVars, trainTmp,
                   ps, top_p, top_class, accVars, stdout, infVars>>

\* faulty variant: an optimizer.step() left in the body of the validation loop
AccuracyAddThenStep ==
    /\ pc = "accuracy_add"
    /\ LET m == Mean(TypeFloat(equals))
       IN  accuracy' = Scalar(RatAdd(accuracy.val, m.val), accuracy.src \cup m.src,
                              accuracy.requires_grad \/ m.requires_grad)
    /\ hist_pred' = hist_pred \cup
                      { <<images[i], At2(top_class, i - 1, 0)>> : i \in 1 .. Len(images) }
    /\ model' = [model EXCEPT !.params =
                    [version |-> @.version + 1,
                     src |-> @.src \cup UNION Range(grads)]]
    /\ optimizer' = [optimizer EXCEPT !.t = @ + 1]
    /\ pc' = "for_test"
    /\ UNCHANGED fwdVars
    /\ UNCHANGED <<cell, grads, modeVars, loopVars, iterVars, batchVars, trainTmp,
                   valTmp, stdout, infVars>>

\* accuracy += torch.mean(equals.type(torch.FloatTensor))
AccuracyAdd ==
    /\ pc = "accuracy_add"
    /\ LET m == Mean(TypeFloat(equals))
       IN  accuracy' = Scalar(RatAdd(accuracy.val, m.val), accuracy.src \cup m.src,
                              accuracy.requires_grad \/ m.requires_grad)
    /\ hist_pred' = hist_pred \cup
                      { <<images[i], At2(top_class, i - 1, 0)>> : i \in 1 .. Len(images) }
    /\ pc' = "for_test"
    /\ UNCHANGED fwdVars
    /\ UNCHANGED <<cell, netVars, modeVars, loopVars, iterVars, batchVars, trainTmp,
                   valTmp, stdout, infVars>>

\* faulty variant: gradients switched off without a block that restores them
NoGradExitKeepsOff ==
    /\ pc = "no_grad_exit"
    /\ pc' = "print"
    /\ UNCHANGED fwdVars
    /\ UNCHANGED <<cell, netVars, modeVars, loopVars, iterVars, batchVars, trainTmp,
                   valTmp, accVars, stdout, infVars>>

\* leaving the torch.no_grad() block restores the saved mode
NoGradExit ==
    /\ pc = "no_grad_exit"
    /\ grad_enabled' = no_grad_prev
    /\ pc' = "print"
    /\ UNCHANGED fwdVars
    /\ UNCHANGED <<cell, netVars, no_grad_prev, loopVars, iterVars, batchVars,
                   trainTmp, valTmp, accVars, stdout, infVars>>

\* the value print(f'Accuracy: {accuracy.item()*100/len(testloader)}%') shows
Printed(acc) == RatMul(RatMul(acc.val, <<100, 1>>), <<1, LenTestLoader>>)

\* print(f'Accuracy: ...%')
StdoutAccuracy ==
    /\ pc = "print"
    /\ stdout' = Append(stdout, Printed(accuracy))
    /\ pc' = IF cell = 17 THEN "model_train" ELSE "for_e"
    /\ UNCHANGED fwdVars
    /\ UNCHANGED <<cell, netVars, modeVars, loopVars, iterVars, batchVars, trainTmp,
                   valTmp, accVars, infVars>>

\* faulty variant: the call model.train() left out after the validation pass
ModelTrainLeftOut ==
    /\ pc = "model_train"
    /\ pc' = "for_e"
    /\ UNCHANGED fwdVars
    /\ UNCHANGED <<cell, netVars, modeVars, loopVars, iterVars, batchVars, trainTmp,
                   valTmp, accVars, stdout, infVars>>

\* model.train() (cell 17)
ModelTrain ==
    /\ pc = "model_train"
    /\ model' = [model EXCEPT !.training = TRUE]
    /\ pc' = "for_e"
    /\ UNCHANGED fwdVars
    /\ UNCHANGED <<cell, optimizer, grads, modeVars, loopVars, iterVars, batchVars,
                   trainTmp, valTmp, accVars, stdout, infVars>>

TrainingCell ==
    \/ ForEpoch \/ RunningLossZero \/ TrainIter \/ TrainNext \/ ZeroGrad
    \/ TrainForward \/ Criterion \/ Backward \/ OptimizerStep \/ RunningLossAdd
    \/ AccuracyZero \/ NoGradEnter \/ ModelEval \/ TestIter \/ TestNext
    \/ ValForward \/ Topk \/ Equals \/ AccuracyAdd \/ NoGradExit
    \/ StdoutAccuracy \/ ModelTrain

\* -------------------------------------------------- the inference cell
\* faulty variant: the call model.eval() left out of the inference cell
InfModelEvalLeftOut ==
    /\ pc = "inf_eval"
    /\ pc' = "inf_iter"
    /\ UNCHANGED fwdVars
    /\ UNCHANGED <<cell, netVars, modeVars, loopVars, iterVars, batchVars, trainTmp,
                   valTmp, accVars, stdout, infVars>>

\* model.eval()
InfModelEval ==
    /\ pc = "inf_eval"
    /\ model' = [model EXCEPT !.training = FALSE]
    /\ pc' = "inf_iter"
    /\ UNCHANGED fwdVars
    /\ UNCHANGED <<cell, optimizer, grads, modeVars, loopVars, iterVars, batchVars,
                   trainTmp, valTmp, accVars, stdout, infVars>>

\* dataiter = iter(testloader)
InfIter ==
    /\ pc = "inf_iter"
    /\ testiter' \in Perms(testset)
    /\ pc' = "inf_next"
    /\ UNCHANGED fwdVars
    /\ UNCHANGED <<cell, netVars, modeVars, loopVars, trainiter, batchVars, trainTmp,
                   valTmp, accVars, stdout, infVars>>

\* images, labels = dataiter.next()
InfNext ==
    /\ pc = "inf_next"
    /\ images' = BatchOf(testiter)
    /\ labels' = LabelsOf(BatchOf(testiter))
    /\ testiter' = RestOf(testiter)
    /\ pc' = "inf_img"
    /\ UNCHANGED fwdVars
    /\ UNCHANGED <<cell, netVars, modeVars, loopVars, trainiter, trainTmp, valTmp,
                   accVars, stdout, infVars>>

\* img = images[0]; img = img.view(1, 784): a batch of one image
InfImg ==
    /\ pc = "inf_img"
    /\ img' = <<images[1]>>
    /\ pc' = "inf_no_grad_enter"
    /\ UNCHANGED fwdVars
    /\ UNCHANGED <<cell, netVars, modeVars, loopVars, iterVars, batchVars, trainTmp,
                   valTmp, accVars, stdout, output>>

\* with torch.no_grad():
InfNoGradEnter ==
    /\ pc = "inf_no_grad_enter"
    /\ no_grad_prev' = grad_enabled
    /\ grad_enabled' = FALSE
    /\ pc' = "inf_forward"
    /\ UNCHANGED fwdVars
    /\ UNCHANGED <<cell, netVars, loopVars, iterVars, batchVars, trainTmp, valTmp,
                   accVars, stdout, infVars>>

\* output = model.forward(img)
InfForward ==
    /\ pc = "inf_forward"
    /\ \E rows \in NetOutputs(img) : output' = Forward(img, rows, grad_enabled)
    /\ pc' = "inf_no_grad_exit"
    /\ UNCHANGED fwdVars
    /\ UNCHANGED <<cell, netVars, modeVars, loopVars, iterVars, batchVars, trainTmp,
                   valTmp, accVars, stdout, img>>

\* the end of the with block
InfNoGradExit ==
    /\ pc = "inf_no_grad_exit"
    /\ grad_enabled' = no_grad_prev
    /\ pc' = "inf_exp"
    /\ UNCHANGED fwdVars
    /\ UNCHANGED <<cell, netVars, no_grad_prev, loopVars, iterVars, batchVars,
                   trainTmp, valTmp, accVars, stdout, infVars>>

\* ps = torch.exp(output), then helper.view_classify(..., ps, ...) plots it
InfExp ==
    /\ pc = "inf_exp"
    /\ ps' = Exp(output)
    /\ pc' = "done"
    /\ UNCHANGED fwdVars
    /\ UNCHANGED <<cell, netVars, modeVars, loopVars, iterVars, batchVars, trainTmp,
                   top_p, top_class, equals, accVars, stdout, infVars>>

InferenceCell ==
    \/ InfModelEval \/ InfIter \/ InfNext \/ InfImg \/ InfNoGradEnter
    \/ InfForward \/ InfNoGradExit \/ InfExp

Next == TrainingCell \/ InferenceCell
Spec == Init /\ [][Next]_vars

\* ------------------------------------- cells 5 to 11: one batch, by hand
\* rows the untrained network of cell 5 returns: any row of Rows
CellOutputs(imgs) == [1 .. Len(imgs) -> Rows]

\* the state after cells 1 and 3: loaders and Classifier defined, nothing run
InitCells ==
    /\ cell = 3
    /\ pc = "cell5"
    /\ model = Classifier
    /\ optimizer = Adam
    /\ grads = <<>>
    /\ grad_enabled = TRUE
    /\ no_grad_prev = TRUE
    /\ e = -1
    /\ steps = 0
    /\ running_loss = 0
    /\ train_losses = <<>>
    /\ test_losses = <<>>
    /\ trainiter = <<>>
    /\ testiter = <<>>
    /\ images = <<>>
    /\ labels = NoTensor
    /\ log_ps = NoTensor
    /\ loss = NoLoss
    /\ ps = NoTensor
    /\ top_p = NoTensor
    /\ top_class = NoTensor
    /\ equals = NoTensor
    /\ accuracy = NoScalar
    /\ stdout = <<>>
    /\ hist_pred = {}
    /\ img = <<>>
    /\ output = NoTensor
    /\ fc = <<>>
    /\ x_cell3 = NoActivation
    /\ x_cell16 = NoActivation
    /\ dropped = {}

\* cell 5: model = Classifier(); images, labels = next(iter(testloader));
\* ps = torch.exp(model(images)); print(ps.shape)
Cell5 ==
    /\ pc = "cell5"
    /\ model' = Classifier
    /\ \E it \in Perms(testset) :
          /\ images' = BatchOf(it)
          /\ labels' = LabelsOf(BatchOf(it))
          /\ \E rows \in CellOutputs(BatchOf(it)) :
                ps' = Exp(Forward(BatchOf(it), rows, grad_enabled))
    /\ stdout' = Append(stdout, ps'.shape)
    /\ cell' = 5
    /\ pc' = "cell7"
    /\ UNCHANGED fwdVars
    /\ UNCHANGED <<optimizer, grads, modeVars, loopVars, iterVars, trainTmp, top_p,
                   top_class, equals, accVars, infVars>>

\* cell 7: top_p, top_class = ps.topk(1, dim=1); print(top_class[:10,:])
Cell7 ==
    /\ pc = "cell7"
    /\ \E r \in Topk1(ps) :
          /\ top_p' = r.values
          /\ top_class' = r.indices
    /\ stdout' = Append(stdout, top_class'.data)
    /\ cell' = 7
    /\ pc' = "cell9"
    /\ UNCHANGED fwdVars
    /\ UNCHANGED <<netVars, modeVars, loopVars, iterVars, batchVars, trainTmp, ps,
                   equals, accVars, infVars>>

\* the statement of markdown cell 8, tried in place of cell 9:
\* equals = top_class == labels
Cell8 ==
    /\ pc = "cell9"
    /\ equals' = TensorEq(top_class, labels)
    /\ cell' = 8
    /\ pc' = "cell11"
    /\ UNCHANGED fwdVars
    /\ UNCHANGED <<netVars, modeVars, loopVars, iterVars, batchVars, trainTmp, ps,
                   top_p, top_class, accVars, stdout, infVars>>

\* cell 9: equals = top_class == labels.view(*top_class.shape)
Cell9 ==
    /\ pc = "cell9"
    /\ equals' = TensorEq(top_class, View(labels, top_class.shape))
    /\ cell' = 9
    /\ pc' = "cell11"
    /\ UNCHANGED fwdVars
    /\ UNCHANGED <<netVars, modeVars, loopVars, iterVars, batchVars, trainTmp, ps,
                   top_p, top_class, accVars, stdout, infVars>>

\* cell 11: accuracy = torch.mean(equals.type(torch.FloatTensor));
\* print(f'Accuracy: {accuracy.item()*100}%')
Cell11 ==
    /\ pc = "cell11"
    /\ accuracy' = Mean(TypeFloat(equals))
    /\ stdout' = Append(stdout, RatMul(accuracy'.val, <<100, 1>>))
    /\ pc' = IF cell = 9 THEN "done" ELSE "done8"
    /\ UNCHANGED fwdVars
    /\ UNCHANGED <<cell, netVars, modeVars, loopVars, iterVars, batchVars, trainTmp,
                   valTmp, hist_pred, infVars>>

NextCells == Cell5 \/ Cell7 \/ Cell8 \/ Cell9 \/ Cell11
SpecCells == InitCells /\ [][NextCells]_vars

\* ------------------- forward of the two Classifiers, on the same weights
\* the statements of the two forward methods, in the order they run
Cell3Pc == <<"cell3_fc1", "cell3_fc2", "cell3_fc3", "cell3_fc4">>
Cell16Pc == <<"cell16_fc1", "cell16_fc2", "cell16_fc3", "cell16_fc4">>

\* One image is given to the Classifier of cell 3 and to the Classifier of
\* cell 16, both holding the same parameters; the module of cell 16 is in
\* the mode its last model.train() or model.eval() left it in.
InitNet ==
    /\ cell = 16
    /\ pc = "cell3_view"
    /\ model \in { [Classifier EXCEPT !.training = t] : t \in BOOLEAN }
    /\ fc \in { Parameters(seed) : seed \in 0 .. MaxSeed }
    /\ img \in [1 .. InputDim -> Pixels]
    /\ x_cell3 = NoActivation
    /\ x_cell16 = NoActivation
    /\ dropped = {}
    /\ optimizer = Adam
    /\ grads = <<>>
    /\ grad_enabled = TRUE
    /\ no_grad_prev = TRUE
    /\ e = -1
    /\ steps = 0
    /\ running_loss = 0
    /\ train_losses = <<>>
    /\ test_losses = <<>>
    /\ trainiter = <<>>
    /\ testiter = <<>>
    /\ images = <<>>
    /\ labels = NoTensor
    /\ log_ps = NoTensor
    /\ loss = NoLoss
    /\ ps = NoTensor
    /\ top_p = NoTensor
    /\ top_class = NoTensor
    /\ equals = NoTensor
    /\ accuracy = NoScalar
    /\ stdout = <<>>
    /\ hist_pred = {}
    /\ output = NoTensor

restVars == <<cell, model, optimizer, grads, modeVars, loopVars, iterVars, batchVars,
              trainTmp, valTmp, accVars, stdout, infVars, fc>>

\* cell 3: x = x.view(x.shape[0], -1)
Cell3View ==
    /\ pc = "cell3_view"
    /\ x_cell3' = Activation(img, 1)
    /\ pc' = Cell3Pc[1]
    /\ UNCHANGED <<restVars, x_cell16, dropped>>

\* cell 3: x = F.relu(self.fcN(x)), for the hidden layer l
Cell3Hidden(l) ==
    /\ pc = Cell3Pc[l]
    /\ x_cell3' = Relu(Linear(fc[l], x_cell3))
    /\ pc' = Cell3Pc[l + 1]
    /\ UNCHANGED <<restVars, x_cell16, dropped>>

\* cell 3: x = F.log_softmax(self.fc4(x), dim=1); return x
Cell3Fc4 ==
    /\ pc = Cell3Pc[4]
    /\ x_cell3' = LogSoftmax(Linear(fc[4], x_cell3))
    /\ pc' = "cell16_view"
    /\ UNCHANGED <<restVars, x_cell16, dropped>>

\* cell 16: x = x.view(x.shape[0], -1)
Cell16View ==
    /\ pc = "cell16_view"
    /\ x_cell16' = Activation(img, 1)
    /\ pc' = Cell16Pc[1]
    /\ UNCHANGED <<restVars, x_cell3, dropped>>

\* cell 16: x = self.dropout(F.relu(self.fcN(x))), for the hidden layer l;
\* the units the dropout module keeps are drawn at random
Cell16Hidden(l) ==
    /\ pc = Cell16Pc[l]
    /\ \E keep \in [1 .. Widths[l + 1] -> BOOLEAN] :
          LET h == Relu(Linear(fc[l], x_cell16))
              d == Dropout(h, keep, model.training)
          IN /\ x_cell16' = d
             /\ dropped' = dropped \cup { <<l, i>> : i \in Zeroed(h, d) }
    /\ pc' = Cell16Pc[l + 1]
    /\ UNCHANGED <<restVars, x_cell3>>

\* cell 16: x = F.log_softmax(self.fc4(x), dim=1); return x
Cell16Fc4 ==
    /\ pc = Cell16Pc[4]
    /\ x_cell16' = LogSoftmax(Linear(fc[4], x_cell16))
    /\ pc' = "returned"
    /\ UNCHANGED <<restVars, x_cell3, dropped>>

NextNet ==
    \/ Cell3View
    \/ \E l \in HiddenLayers : Cell3Hidden(l)
    \/ Cell3Fc4
    \/ Cell16View
    \/ \E l \in HiddenLayers : Cell16Hidden(l)
    \/ Cell16Fc4
SpecNet == InitNet /\ [][NextNet]_vars

\* ================================================================ claims
\* statements of the training loop, of the validation pass and of cell 19
TrainingPcs == {"for_train", "zero_grad", "forward", "criterion", "backward", "step",
                "running_loss_add"}
ValidationLoopPcs == {"for_test_iter", "for_test", "val_forward", "topk", "equals",
                      "accuracy_add"}
ValidationPcs == {"accuracy_zero", "no_grad_enter", "model_eval"}
                 \cup ValidationLoopPcs \cup {"no_grad_exit", "print"}

\* the examples of hist_pred whose predicted class equals their label
Correct == { h \in hist_pred : h[2] = Target(h[1]) }

\* C1: every parameter update comes from training examples only and every
\* value added to the accuracy comes from test examples only, in both
\* training cells and in every epoch.
HeldOutEvaluation ==
    /\ model.params.src \subseteq trainset
    /\ UNION Range(grads) \subseteq trainset
    /\ pc = "step" => (grads # <<>> /\ images # <<>> /\ Range(images) \subseteq trainset)
    /\ accuracy.src \subseteq testset
    /\ pc = "accuracy_add" => (equals.src # {} /\ equals.src \subseteq testset)
    /\ trainset \cap testset = {}

\* in the last epoch, every training example has updated the parameters and
\* every test example has been added to the accuracy
HeldOutWitness ==
    /\ pc = "print"
    /\ e = epochs - 1
    /\ model.params.src = trainset
    /\ accuracy.src = testset

\* C2: no step of the validation pass, from `accuracy = 0` to the print,
\* changes the parameters, the optimizer state or the gradients.
ValidationLeavesModelAlone ==
    [][(pc \in ValidationPcs) =>
          (model'.params = model.params /\ optimizer' = optimizer /\ grads' = grads)]_vars

\* a validation pass of a model that has been updated is about to print
ValidationWitness ==
    /\ pc = "print"
    /\ model.params.version > 0
    /\ optimizer.t = model.params.version
    /\ Cardinality(hist_pred) = TestSize

\* C3: in the dropout training cell the model is in train mode at every
\* statement of the training loop and in evaluation mode from the first to
\* the last statement of the validation loop, in every epoch.
ModeToggling ==
    cell = 17 =>
       /\ pc \in TrainingPcs => model.training
       /\ pc \in ValidationLoopPcs \cup {"no_grad_exit", "print", "model_train"}
             => ~model.training

\* the second epoch's training forward pass, after an evaluation pass
ModeTogglingWitness ==
    /\ cell = 17
    /\ pc = "forward"
    /\ e = 1
    /\ stdout # <<>>

\* C4: the accuracy printed after the validation loop is
\* 100 * (test examples predicted correctly) / (test examples).
PrintedIsTotalAccuracy ==
    (pc \in {"model_train", "for_e"} /\ stdout # <<>> /\ hist_pred # {}) =>
        RatEq(stdout[Len(stdout)], <<100 * Cardinality(Correct), TestSize>>)

\* C5: in the dropout training cell every completed epoch has recorded a
\* training loss and a validation loss.
LossesRecorded ==
    (cell = 17 /\ pc = "for_e" /\ e >= 0) =>
        /\ Len(train_losses) = e + 1
        /\ Len(test_losses) = e + 1

\* C6: gradients are enabled at every statement of the training loop and
\* disabled at every statement of the validation loop, so backward never
\* meets a loss computed without gradients, in both training cells.
GradientTracking ==
    /\ pc \in TrainingPcs => grad_enabled
    /\ pc \in {"criterion", "backward"} => log_ps.requires_grad
    /\ pc = "backward" => loss.requires_grad
    /\ pc \in ValidationLoopPcs => ~grad_enabled
    /\ pc \in {"topk", "equals", "accuracy_add"} => ~ps.requires_grad
    /\ pc # "RuntimeError"

\* the second epoch's backward pass, after a no-gradient block was left
GradientTrackingWitness ==
    /\ pc = "backward"
    /\ e = 1
    /\ stdout # <<>>
    /\ loss.requires_grad

\* C7: the forward pass of the inference cell runs in evaluation mode with
\* gradients disabled, and its output is not tracked by autograd.
InferenceMode ==
    /\ pc = "inf_forward" => (~model.training /\ ~grad_enabled)
    /\ (cell = 19 /\ pc \in {"inf_no_grad_exit", "inf_exp", "done"}) =>
          (output # NoTensor /\ ~output.requires_grad /\ output.src = Range(img))

\* the inference forward pass has run on one test image
InferenceWitness ==
    /\ cell = 19
    /\ pc = "inf_no_grad_exit"
    /\ Len(img) = 1
    /\ img[1] \in testset
    /\ output.shape = <<1, NumClasses>>

\* C8: the mean of the 0/1 values of `equals` is their sum over their
\* number; for the reshaped comparison it is the fraction of the examples
\* of the batch whose predicted class equals the label.
BatchAccuracy ==
    /\ pc \in {"done", "done8"} =>
          accuracy.val[1] * Len(equals.data)
             = accuracy.val[2] * Cardinality({ k \in 1 .. Len(equals.data) : equals.data[k] })
    /\ pc = "done" =>
          RatEq(accuracy.val,
                <<Cardinality({ i \in 1 .. Len(images) :
                                  top_class.data[i] = Target(images[i]) }),
                  Len(images)>>)

\* a batch with some predictions right and some wrong
BatchAccuracyWitness ==
    /\ pc = "done"
    /\ accuracy.val[1] > 0
    /\ accuracy.val[1] < accuracy.val[2]

\* C9: top_class compared with the reshaped labels has one entry per
\* example, true iff prediction i equals label i; compared with the 1-D
\* labels it is N x N, entry (i, j) comparing prediction i with label j.
ComparisonShape ==
    LET N == Len(images)
    IN  /\ (cell = 9 /\ pc \in {"cell11", "done"}) =>
              /\ equals.shape = <<N, 1>>
              /\ Len(equals.data) = N
              /\ \A i \in 0 .. (N - 1) :
                    At2(equals, i, 0) = (At2(top_class, i, 0) = Target(images[i + 1]))
        /\ (cell = 8 /\ pc \in {"cell11", "done8"}) =>
              /\ equals.shape = <<N, N>>
              /\ Len(equals.data) = N * N
              /\ \A i \in 0 .. (N - 1) : \A j \in 0 .. (N - 1) :
                    At2(equals, i, j) = (At2(top_class, i, 0) = Target(images[j + 1]))

\* a reshaped comparison with a right and a wrong prediction
ComparisonShapeWitness ==
    /\ cell = 9
    /\ pc = "cell11"
    /\ \E i, j \in 1 .. Len(images) : equals.data[i] /\ ~equals.data[j]

\* C10: topk(1, dim=1) gives for every row the highest probability and its
\* 0-based index; a row whose fifth element is the highest gives index 4.
TopkIsArgmax ==
    pc \in {"cell9", "cell11", "done", "done8"} =>
       /\ top_class.shape = <<Len(images), 1>>
       /\ top_p.shape = <<Len(images), 1>>
       /\ \A i \in 0 .. (Len(images) - 1) :
             LET c == At2(top_class, i, 0)
             IN  /\ c \in Classes
                 /\ At2(top_p, i, 0) = At2(ps, i, c)
                 /\ \A j \in Classes : At2(ps, i, j) <= At2(top_p, i, 0)
                 /\ (\A j \in Classes \ {4} : At2(ps, i, j) < At2(ps, i, 4)) => c = 4

\* a row whose fifth element is the highest, and a row with a tie
TopkWitness ==
    /\ pc = "cell9"
    /\ \E i \in 0 .. (Len(images) - 1) :
          /\ \A j \in Classes \ {4} : At2(ps, i, j) < At2(ps, i, 4)
          /\ At2(top_class, i, 0) = 4
    /\ \E i \in 0 .. (Len(images) - 1) :
          Cardinality(ArgTop(ps, i)) > 1

\* C11: in evaluation mode the Classifier of cell 16 zeroes no unit and
\* returns, for every image and every weight assignment, the output of the
\* Classifier of cell 3 on the same weights; units are zeroed only in train
\* mode, and only among the activations of the three hidden layers: the
\* output has all its NumClasses entries and has passed through the dropout
\* scaling exactly three times.
EvalUsesEntireNetwork ==
    /\ (~model.training) => dropped = {}
    /\ (pc = "returned" /\ ~model.training) => x_cell16 = x_cell3
    /\ \A d \in dropped : d[1] \in HiddenLayers
    /\ (pc = "returned") =>
          /\ Len(x_cell16.num) = NumClasses
          /\ x_cell16.den = IF model.training THEN KeepScale[2] * KeepScale[2] * KeepScale[2]
                            ELSE 1

\* evaluation mode, forward returned: the two outputs agree and are not the
\* uniform distribution, although some hidden unit was active
EvalWitness ==
    /\ pc = "returned"
    /\ ~model.training
    /\ x_cell16 = x_cell3
    /\ \E i \in 1 .. NumClasses : x_cell16.num[i] # 0

\* C12: in each epoch the validation pass runs once, after the training loop
\* has consumed every batch of the epoch (the iterator is exhausted, one
\* optimizer step and one running_loss term per batch), and prints one
\* accuracy line: epoch e starts with e lines printed and ends with e + 1,
\* and the finished run has printed `epochs` lines.
OneValidationPerEpoch ==
    /\ (pc \in {"running_loss", "for_train_iter"} \cup TrainingPcs \cup ValidationPcs) =>
          Len(stdout) = e
    /\ (pc \in {"model_train", "for_e"}) => Len(stdout) = e + 1
    /\ (pc = "done" \/ cell = 19) => (e = epochs - 1 /\ Len(stdout) = epochs)
    /\ (pc \in ValidationPcs \cup {"model_train"}) =>
          /\ trainiter = <<>>
          /\ running_loss = LenTrainLoader
          /\ optimizer.t = (e + 1) * LenTrainLoader
    /\ (pc \in TrainingPcs) =>
          optimizer.t < (e + 1) * LenTrainLoader \/ (pc = "for_train" /\ trainiter = <<>>)
                                                 \/ pc = "running_loss_add"

\* the last epoch of cell 17 has printed its line: `epochs` lines in all,
\* after epochs * len(trainloader) optimizer steps
OneValidationWitness ==
    /\ cell = 17
    /\ pc = "model_train"
    /\ e = epochs - 1
    /\ Len(stdout) = epochs
    /\ optimizer.t = epochs * LenTrainLoader

\* C13: a training iteration runs zero_grad, forward, criterion, backward and
\* optimizer.step in that order, once each: .grad is empty from zero_grad to
\* backward, the output and the loss are those of the current batch, and at
\* optimizer.step .grad holds the gradient of exactly one backward pass, that
\* of the current batch; one step is taken per batch.
StepOrder ==
    /\ (pc = "for_train") => pc' \in {"zero_grad", "accuracy_zero"}
    /\ (pc = "zero_grad") => pc' = "forward"
    /\ (pc = "forward") => pc' = "criterion"
    /\ (pc = "criterion") => pc' = "backward"
    /\ (pc = "backward") => pc' = "step"
    /\ (pc = "step") => pc' = "running_loss_add"
    /\ (pc = "running_loss_add") => pc' = "for_train"
    /\ (pc' = "zero_grad") => (pc = "for_train" /\ trainiter # <<>>)
StepGradient ==
    /\ (pc \in {"forward", "criterion", "backward"}) => grads = <<>>
    /\ (pc \in {"criterion", "backward", "step"}) =>
          (log_ps.src = Range(images) /\ log_ps.requires_grad)
    /\ (pc \in {"backward", "step"}) => loss.src = Range(images)
    /\ (pc \in {"step", "running_loss_add"}) => grads = <<Range(images)>>
    /\ (pc \in {"zero_grad", "forward", "criterion", "backward", "step"}) =>
          (images # <<>> /\ optimizer.t = e * LenTrainLoader + running_loss)
    /\ (pc = "running_loss_add") => optimizer.t = e * LenTrainLoader + running_loss + 1
    /\ optimizer.t = model.params.version
TrainingStepOrder == [](StepGradient) /\ [][StepOrder]_vars

\* optimizer.step of a later batch: the parameters already hold updates from
\* other examples, and .grad holds the current batch alone
TrainingStepWitness ==
    /\ pc = "step"
    /\ optimizer.t >= 1
    /\ ~(model.params.src \subseteq Range(images))
    /\ grads = <<Range(images)>>

====
